---- MODULE Spec2Model ----
(***************************************************************************)
(* A model of youtube-doc-mvp: the POST handler of src/main.py and the     *)
(* extraction-and-assembly pipeline of src/processor.py.                   *)
(*                                                                         *)
(* Text is a sequence of pieces.  A piece is one character ("a", "7") or   *)
(* one literal of the program or of a URL ("youtube.com/watch?v=",         *)
(* "**Title:** "); CharLen gives the number of characters of a piece.      *)
(* Python values are records [t, n, s]: None, an int, a str, or the        *)
(* marker of a key a dict does not hold.                                   *)
(***************************************************************************)
EXTENDS Integers, Sequences, FiniteSets, TLC

\* ------------------------------------------------------------------ bounds

\* How many requests the dispatcher serves.
NumRequests == 2
\* How many allowed characters an ID run may have beyond the 11 of an ID.
MaxExtra == 2
\* The longest transcript catalog.
MaxCatalog == 2
\* The longest exception message, in words.
MaxWords == 3

Requests == 1..NumRequests

\* ------------------------------------------------------------ Python values

None == [t |-> "none", n |-> 0, s |-> <<>>]
Missing == [t |-> "missing", n |-> 0, s |-> <<>>]
PyInt(n) == [t |-> "int", n |-> n, s |-> <<>>]
PyStr(s) == [t |-> "str", n |-> 0, s |-> s]

\* bool(v): None, 0 and "" are false.
Truthy(v) ==
    CASE v.t = "int" -> v.n # 0
      [] v.t = "str" -> v.s # <<>>
      [] OTHER -> FALSE

\* dict.get(key, default): the default only when the key is not in the dict.
Get(d, key, default) == IF d[key] = Missing THEN default ELSE d[key]

\* What a call gives: a value, or an exception with its message.
Returns(v) == [raised |-> FALSE, value |-> v, message |-> <<>>]
Raises(m) == [raised |-> TRUE, value |-> None, message |-> m]

Min(S) == CHOOSE x \in S : \A y \in S : x <= y

\* ------------------------------------------------------- extract_video_id

\* The {11} of the three patterns.
IdLen == 11

\* The character class [a-zA-Z0-9_-], one representative per kind.
IdChars == {"a", "B", "7", "_", "-"}

\* The literal part of each pattern, in the order of youtube_patterns.
youtube_patterns == <<"youtube.com/watch?v=", "youtu.be/", "youtube.com/embed/">>

\* group(1) of the pattern with literal lit matched at position i of url, <<>>
\* when the pattern does not match there: an optional scheme, an optional
\* "www.", the literal, then 11 characters of the class.  Nothing is required
\* of what follows the 11 characters.
MatchAt(lit, url, i) ==
    LET j == IF i <= Len(url) /\ url[i] \in {"https://", "http://"} THEN i + 1 ELSE i
        k == IF j <= Len(url) /\ url[j] = "www." THEN j + 1 ELSE j
    IN  IF /\ k + IdLen <= Len(url)
           /\ url[k] = lit
           /\ \A d \in 1..IdLen : url[k + d] \in IdChars
        THEN SubSeq(url, k + 1, k + IdLen)
        ELSE <<>>

\* re.search(pattern, url): the leftmost match, <<>> for no match.
Search(lit, url) ==
    LET hits == {i \in 1..Len(url) : MatchAt(lit, url, i) # <<>>}
    IN  IF hits = {} THEN <<>> ELSE MatchAt(lit, url, Min(hits))

InvalidUrlMessage == <<"Invalid", "YouTube", "URL">>

\* The first pattern, in order, that matches decides; none: ValueError.
extract_video_id(url) ==
    LET matching == {p \in 1..Len(youtube_patterns) : Search(youtube_patterns[p], url) # <<>>}
    IN  IF matching = {}
        THEN Raises(InvalidUrlMessage)
        ELSE Returns(PyStr(Search(youtube_patterns[Min(matching)], url)))

\* --------------------------------------------------------------------- text

DigitChars == <<"0", "1", "2", "3", "4", "5", "6", "7", "8", "9">>

\* str(n) of a non-negative int.
RECURSIVE Digits(_)
Digits(n) == IF n < 10 THEN <<DigitChars[n + 1]>> ELSE Digits(n \div 10) \o <<DigitChars[(n % 10) + 1]>>

\* The three digits of a group below 1000, zero-padded.
Group3(n) == <<DigitChars[(n \div 100) + 1], DigitChars[((n \div 10) % 10) + 1], DigitChars[(n % 10) + 1]>>

\* format(n, ","): groups of three digits from the right.
RECURSIVE CommaGroup(_)
CommaGroup(n) == IF n < 1000 THEN Digits(n) ELSE CommaGroup(n \div 1000) \o <<",">> \o Group3(n % 1000)

\* str(v) as an f-string renders it.
Render(v) ==
    CASE v.t = "int" -> Digits(v.n)
      [] v.t = "str" -> v.s
      [] OTHER -> <<"N", "o", "n", "e">>

\* The pieces longer than one character, with their number of characters.
Literals ==
    { <<"https://", 8>>, <<"http://", 7>>, <<"www.", 4>>, <<"vimeo.com/", 10>>,
      <<"youtube.com/watch?v=", 20>>, <<"youtu.be/", 9>>, <<"youtube.com/embed/", 18>>,
      <<"Unknown Title", 13>>, <<"Unknown Channel", 15>>, <<"Video ", 6>>,
      <<"Description not available", 25>>, <<"Unknown", 7>>,
      <<"en", 2>>, <<"de", 2>>, <<"manual", 6>>, <<"auto", 4>>,
      <<"# YouTube Video Documentation", 29>>, <<"\n\n", 2>>,
      <<"**Title:** ", 11>>, <<"**URL:** ", 9>>, <<"**Duration:** ", 14>>,
      <<"**Views:** ", 11>>, <<"**Channel:** ", 13>>, <<"**Upload Date:** ", 17>>,
      <<"---", 3>>, <<"## Description", 14>>, <<"## Transcript", 13>>,
      <<"*Transcript not available for this video.*", 42>>,
      <<"**Estimated Tokens:** ", 22>>, <<"m ", 2>>, <<"h ", 2>> }

CharLen(p) == IF \E e \in Literals : e[1] = p THEN (CHOOSE e \in Literals : e[1] = p)[2] ELSE 1

\* len(text), in characters.
RECURSIVE CharCount(_)
CharCount(text) == IF text = <<>> THEN 0 ELSE CharLen(Head(text)) + CharCount(Tail(text))

\* ---------------------------------------------------------- get_video_info

\* extract_info of the yt-dlp branch, given what ydl.extract_info gives: info
\* is a dict of the six keys read, each a value, None or not in the dict.
\* A failure of the provider is raised to the caller of the job.
YtDlpExtractInfo(answer, url, video_id) ==
    IF answer.raised THEN answer
    ELSE LET info == answer.value
         IN  Returns([title |-> Get(info, "title", PyStr(<<"Unknown Title">>)),
                      description |-> Get(info, "description", PyStr(<<>>)),
                      duration |-> Get(info, "duration", PyInt(0)),
                      view_count |-> Get(info, "view_count", None),
                      channel |-> Get(info, "uploader", PyStr(<<"Unknown Channel">>)),
                      upload_date |-> Get(info, "upload_date", None),
                      url |-> PyStr(url),
                      video_id |-> video_id])

\* publish_date.strftime('%Y%m%d') of a date held as year, month, day.
Strftime(date) ==
    LET y == Digits(date.n \div 10000)
        md == Group3((date.n \div 100) % 100) \o Group3(date.n % 100)
    IN  PyStr(y \o <<md[2], md[3], md[5], md[6]>>)

\* extract_info of the pytube branch, given the YouTube object: its
\* attributes are copied as they are, with no default.
PytubeExtractInfo(answer, url) ==
    IF answer.raised THEN answer
    ELSE LET yt == answer.value
         IN  Returns([title |-> yt.title,
                      description |-> yt.description,
                      duration |-> yt.length,
                      view_count |-> yt.views,
                      channel |-> yt.author,
                      upload_date |-> IF yt.publish_date # None THEN Strftime(yt.publish_date) ELSE None,
                      url |-> PyStr(url),
                      video_id |-> yt.video_id])

\* The record returned when both providers are missing or failed.
MinimalInfo(url, video_id) ==
    [title |-> PyStr(<<"Video ">> \o video_id.s),
     description |-> PyStr(<<"Description not available">>),
     duration |-> PyInt(0),
     view_count |-> None,
     channel |-> PyStr(<<"Unknown Channel">>),
     upload_date |-> None,
     url |-> PyStr(url),
     video_id |-> video_id]

\* ---------------------------------------------------------- get_transcript

\* TranscriptList.find_manually_created_transcript(language_codes): the manual
\* track of the first requested language that has one, else NoTranscriptFound.
find_manually_created_transcript(transcript_list, language) ==
    LET found == {i \in 1..Len(transcript_list) :
                    /\ ~transcript_list[i].is_generated
                    /\ transcript_list[i].language_code = language}
    IN  IF found = {} THEN Raises(<<"No", "transcripts", "were", "found">>)
        ELSE Returns(transcript_list[Min(found)])

\* TranscriptList.find_generated_transcript(language_codes).
find_generated_transcript(transcript_list, language) ==
    LET found == {i \in 1..Len(transcript_list) :
                    /\ transcript_list[i].is_generated
                    /\ transcript_list[i].language_code = language}
    IN  IF found = {} THEN Raises(<<"No", "transcripts", "were", "found">>)
        ELSE Returns(transcript_list[Min(found)])

\* TextFormatter().format_transcript(track.fetch()): the text of that track.
FormattedText(track) ==
    <<track.language_code, IF track.is_generated THEN "auto" ELSE "manual">>

\* extract_transcript with the two lookups swapped: generated before manual.
extract_transcript_generated_first(listing, fetch, language) ==
    IF listing.raised THEN None
    ELSE LET transcript_list == listing.value
             manual == find_manually_created_transcript(transcript_list, language)
             generated == find_generated_transcript(transcript_list, language)
             transcript == IF ~generated.raised THEN generated.value
                           ELSE IF ~manual.raised THEN manual.value
                           ELSE IF transcript_list # <<>> THEN transcript_list[1]
                           ELSE None
         IN  IF transcript = None THEN None
             ELSE IF fetch = "raises" THEN None
             ELSE IF fetch = "empty" THEN PyStr(<<>>)
             ELSE PyStr(FormattedText(transcript))

\* extract_transcript: listing is what list_transcripts gives (a catalog or
\* an exception), fetch what fetching and formatting the chosen track gives
\* ("raises", "empty" or "text").  Every exception ends in None.
extract_transcript(listing, fetch, language) ==
    IF listing.raised THEN None
    ELSE LET transcript_list == listing.value
             manual == find_manually_created_transcript(transcript_list, language)
             generated == find_generated_transcript(transcript_list, language)
             transcript == IF ~manual.raised THEN manual.value
                           ELSE IF ~generated.raised THEN generated.value
                           ELSE IF transcript_list # <<>> THEN transcript_list[1]
                           ELSE None
         IN  IF transcript = None THEN None
             ELSE IF fetch = "raises" THEN None
             ELSE IF fetch = "empty" THEN PyStr(<<>>)
             ELSE PyStr(FormattedText(transcript))

\* -------------------------------------------------- generate_documentation

TypeErrorMessage(type) ==
    <<"'<'", "not", "supported", "between", "instances", "of", type, "and", "'int'">>

\* format_duration: the comparison with 60 raises TypeError for None and str.
format_duration(seconds) ==
    IF seconds.t = "none" THEN Raises(TypeErrorMessage("'NoneType'"))
    ELSE IF seconds.t # "int" THEN Raises(TypeErrorMessage("'str'"))
    ELSE IF seconds.n < 60 THEN Returns(Digits(seconds.n) \o <<"s">>)
    ELSE IF seconds.n < 3600
         THEN Returns(Digits(seconds.n \div 60) \o <<"m ">> \o Digits(seconds.n % 60) \o <<"s">>)
    ELSE Returns(Digits(seconds.n \div 3600) \o <<"h ">>
                 \o Digits((seconds.n % 3600) \div 60) \o <<"m ">>
                 \o Digits(seconds.n % 60) \o <<"s">>)

\* The count of the subword tokenizer, which the program does not define: one
\* token per piece stands for it.
EncodeLen(text) == Len(text)

\* estimate_tokens: the tokenizer's count, len(text) // 4 when it cannot be loaded.
estimate_tokens(text, tiktoken) == IF tiktoken THEN EncodeLen(text) ELSE CharCount(text) \div 4

\* The Views part: the number only when view_count is truthy.
ViewsPart(view_count) ==
    IF Truthy(view_count)
    THEN <<"**Views:** ">> \o CommaGroup(view_count.n) \o <<"\n\n">>
    ELSE <<"**Views:** ", "Unknown", "\n\n">>

\* content: everything joined before the token estimate is taken.
Content(video_info, transcript) ==
       <<"# YouTube Video Documentation", "\n\n">>
    \o <<"**Title:** ">> \o Render(video_info.title) \o <<"\n\n">>
    \o <<"**URL:** ">> \o Render(video_info.url) \o <<"\n\n">>
    \o <<"**Duration:** ">> \o format_duration(video_info.duration).value \o <<"\n\n">>
    \o ViewsPart(video_info.view_count)
    \o <<"**Channel:** ">> \o Render(video_info.channel) \o <<"\n\n">>
    \o (IF Truthy(video_info.upload_date)
        THEN <<"**Upload Date:** ">> \o Render(video_info.upload_date) \o <<"\n\n">>
        ELSE <<>>)
    \o <<"---", "\n\n">>
    \o (IF Truthy(video_info.description)
        THEN <<"## Description", "\n\n">> \o video_info.description.s \o <<"\n\n">>
        ELSE <<>>)
    \o (IF Truthy(transcript)
        THEN <<"## Transcript", "\n\n">> \o transcript.s \o <<"\n\n">>
        ELSE <<"## Transcript", "\n\n", "*Transcript not available for this video.*", "\n\n">>)

\* generate_documentation with the estimate taken after the closing separator
\* is appended.
generate_documentation_counting_separator(video_info, transcript, tiktoken) ==
    IF format_duration(video_info.duration).raised
    THEN format_duration(video_info.duration)
    ELSE LET content == Content(video_info, transcript) \o <<"---", "\n\n">>
             estimated_tokens == estimate_tokens(content, tiktoken)
         IN  Returns(PyStr(content
                           \o <<"**Estimated Tokens:** ">> \o CommaGroup(estimated_tokens) \o <<"\n">>))

\* generate_documentation: the document, or the TypeError of format_duration.
generate_documentation(video_info, transcript, tiktoken) ==
    IF format_duration(video_info.duration).raised
    THEN format_duration(video_info.duration)
    ELSE LET content == Content(video_info, transcript)
             estimated_tokens == estimate_tokens(content, tiktoken)
         IN  Returns(PyStr(content \o <<"---", "\n\n">>
                           \o <<"**Estimated Tokens:** ">> \o CommaGroup(estimated_tokens) \o <<"\n">>))

\* ------------------------------------------------------- the POST handler

\* str.lower() of a word: the words with capitals, others are lower case already.
LowerCase ==
    { <<"Not", "not">>, <<"NOT", "not">>, <<"Available", "available">>,
      <<"Transcript", "transcript">>, <<"TRANSCRIPT", "transcript">>,
      <<"Video", "video">>, <<"Invalid", "invalid">>, <<"YouTube", "youtube">>,
      <<"URL", "url">>, <<"No", "no">>, <<"'NoneType'", "'nonetype'">> }

Lower(message) ==
    [i \in 1..Len(message) |->
        IF \E e \in LowerCase : e[1] = message[i]
        THEN (CHOOSE e \in LowerCase : e[1] = message[i])[2]
        ELSE message[i]]

\* needle in text: the words of needle, in a row, somewhere in text.
Contains(text, needle) ==
    \E i \in 0..(Len(text) - Len(needle)) :
        \A j \in 1..Len(needle) : text[i + j] = needle[j]

VideoUnavailableMessage ==
    <<"Video not available. Please check that the video is public and the URL is correct.">>

TranscriptUnavailableMessage ==
    <<"Transcript not available for this video. Try a different video or check if captions are enabled.">>

\* The except branch without .lower(): the two kinds are looked for as written.
ErrorMessageCaseSensitive(message) ==
    IF Contains(message, <<"not", "available">>) THEN VideoUnavailableMessage
    ELSE IF Contains(message, <<"transcript">>) THEN TranscriptUnavailableMessage
    ELSE <<"Error", "processing", "video:">> \o message

\* The except branch: the generic message, replaced for the two kinds of
\* message; "not available" is looked for first.
ErrorMessage(message) ==
    IF Contains(Lower(message), <<"not", "available">>) THEN VideoUnavailableMessage
    ELSE IF Contains(Lower(message), <<"transcript">>) THEN TranscriptUnavailableMessage
    ELSE <<"Error", "processing", "video:">> \o message

\* The context a request starts with.
InitialContext(url) ==
    [video_url |-> PyStr(url), result |-> FALSE, error_message |-> None,
     content |-> None, video_info |-> None]

\* -------------------------------------------------------------------- state

VARIABLES
    installed,       \* which optional modules the imports found
    video_url,       \* per request: the submitted form field
    net,             \* per request: what the providers answer for it
    pc,              \* per request: where its coroutine, or its job, is
    loop,            \* the request whose coroutine runs on the event loop, 0 for none
    video_id,        \* per request: locals of process_youtube_video
    video_info,
    transcript,
    future,          \* per request: the result of its executor job
    provider_calls,  \* per request: the metadata providers called, and how each ended
    result,          \* per request: what process_youtube_video gave the handler
    context,         \* per request: the template context
    response         \* per request: the context rendered

vars == <<installed, video_url, net, pc, loop, video_id, video_info, transcript,
          future, provider_calls, result, context, response>>

\* The provider call of request r has been handed to the executor and has
\* not returned yet.
InFlight(r) == pc[r] \in {"yt_dlp_running", "pytube_running", "transcript_running"}

\* --------------------------------------------------------------- the steps

\* process_video up to the call of the pipeline: the context is built.
Post(r) ==
    /\ pc[r] = "idle"
    /\ loop = 0
    /\ loop' = r
    /\ context' = [context EXCEPT ![r] = InitialContext(video_url[r])]
    /\ pc' = [pc EXCEPT ![r] = "extract_video_id"]
    /\ UNCHANGED <<installed, video_url, net, video_id, video_info, transcript,
                   future, provider_calls, result, response>>

\* process_youtube_video: video_id = extract_video_id(url); its ValueError
\* leaves the pipeline.
ExtractId(r) ==
    /\ pc[r] = "extract_video_id"
    /\ loop = r
    /\ LET got == extract_video_id(video_url[r])
       IN  IF got.raised
           THEN /\ result' = [result EXCEPT ![r] = got]
                /\ pc' = [pc EXCEPT ![r] = "except"]
                /\ UNCHANGED video_id
           ELSE /\ video_id' = [video_id EXCEPT ![r] = got.value]
                /\ pc' = [pc EXCEPT ![r] = "get_video_info"]
                /\ UNCHANGED result
    /\ UNCHANGED <<installed, video_url, net, loop, video_info, transcript,
                   future, provider_calls, context, response>>

\* The yt-dlp branch with extract_info called in the coroutine itself: the
\* event loop stays with the request while the provider answers.
TryYtDlpOnLoop(r) ==
    /\ pc[r] = "get_video_info"
    /\ loop = r
    /\ IF installed.yt_dlp
       THEN /\ provider_calls' = [provider_calls EXCEPT ![r] = Append(@, "call yt_dlp")]
            /\ pc' = [pc EXCEPT ![r] = "yt_dlp_running"]
       ELSE /\ pc' = [pc EXCEPT ![r] = "fallback"]
            /\ UNCHANGED provider_calls
    /\ UNCHANGED <<installed, video_url, net, loop, video_id, video_info, transcript,
                   future, result, context, response>>

\* get_video_info, yt-dlp branch: with the module, extract_info goes to the
\* executor and the coroutine waits for it; without it, the next branch.
TryYtDlp(r) ==
    /\ pc[r] = "get_video_info"
    /\ loop = r
    /\ IF installed.yt_dlp
       THEN /\ provider_calls' = [provider_calls EXCEPT ![r] = Append(@, "call yt_dlp")]
            /\ pc' = [pc EXCEPT ![r] = "yt_dlp_running"]
            /\ loop' = 0
       ELSE /\ pc' = [pc EXCEPT ![r] = "fallback"]
            /\ UNCHANGED <<provider_calls, loop>>
    /\ UNCHANGED <<installed, video_url, net, video_id, video_info, transcript,
                   future, result, context, response>>

\* The executor thread runs extract_info of the yt-dlp branch.
YtDlpWorker(r) ==
    /\ pc[r] = "yt_dlp_running"
    /\ LET got == YtDlpExtractInfo(net[r].yt_dlp, video_url[r], video_id[r])
       IN  /\ future' = [future EXCEPT ![r] = got]
           /\ provider_calls' = [provider_calls EXCEPT ![r] =
                  Append(@, IF got.raised THEN "yt_dlp raised" ELSE "yt_dlp returned")]
    /\ pc' = [pc EXCEPT ![r] = "yt_dlp_finished"]
    /\ UNCHANGED <<installed, video_url, net, loop, video_id, video_info, transcript,
                   result, context, response>>

\* The await of the yt-dlp branch with the return left out: the pytube branch
\* follows a record as it follows an exception.
YtDlpResumeFallsThrough(r) ==
    /\ pc[r] = "yt_dlp_finished"
    /\ loop = 0
    /\ loop' = r
    /\ IF future[r].raised
       THEN UNCHANGED video_info
       ELSE video_info' = [video_info EXCEPT ![r] = future[r].value]
    /\ pc' = [pc EXCEPT ![r] = "fallback"]
    /\ UNCHANGED <<installed, video_url, net, video_id, transcript,
                   future, provider_calls, result, context, response>>

\* The await of the yt-dlp branch resumes: the record is returned, or the
\* exception is printed and the next branch follows.
YtDlpResume(r) ==
    /\ pc[r] = "yt_dlp_finished"
    /\ loop = 0
    /\ loop' = r
    /\ IF future[r].raised
       THEN /\ pc' = [pc EXCEPT ![r] = "fallback"]
            /\ UNCHANGED video_info
       ELSE /\ video_info' = [video_info EXCEPT ![r] = future[r].value]
            /\ pc' = [pc EXCEPT ![r] = "get_transcript"]
    /\ UNCHANGED <<installed, video_url, net, video_id, transcript,
                   future, provider_calls, result, context, response>>

\* get_video_info, pytube branch.
TryPytube(r) ==
    /\ pc[r] = "fallback"
    /\ loop = r
    /\ IF installed.pytube
       THEN /\ provider_calls' = [provider_calls EXCEPT ![r] = Append(@, "call pytube")]
            /\ pc' = [pc EXCEPT ![r] = "pytube_running"]
            /\ loop' = 0
       ELSE /\ pc' = [pc EXCEPT ![r] = "minimal"]
            /\ UNCHANGED <<provider_calls, loop>>
    /\ UNCHANGED <<installed, video_url, net, video_id, video_info, transcript,
                   future, result, context, response>>

\* The executor thread runs extract_info of the pytube branch.
PytubeWorker(r) ==
    /\ pc[r] = "pytube_running"
    /\ LET got == PytubeExtractInfo(net[r].pytube, video_url[r])
       IN  /\ future' = [future EXCEPT ![r] = got]
           /\ provider_calls' = [provider_calls EXCEPT ![r] =
                  Append(@, IF got.raised THEN "pytube raised" ELSE "pytube returned")]
    /\ pc' = [pc EXCEPT ![r] = "pytube_finished"]
    /\ UNCHANGED <<installed, video_url, net, loop, video_id, video_info, transcript,
                   result, context, response>>

\* The await of the pytube branch resumes.
PytubeResume(r) ==
    /\ pc[r] = "pytube_finished"
    /\ loop = 0
    /\ loop' = r
    /\ IF future[r].raised
       THEN /\ pc' = [pc EXCEPT ![r] = "minimal"]
            /\ UNCHANGED video_info
       ELSE /\ video_info' = [video_info EXCEPT ![r] = future[r].value]
            /\ pc' = [pc EXCEPT ![r] = "get_transcript"]
    /\ UNCHANGED <<installed, video_url, net, video_id, transcript,
                   future, provider_calls, result, context, response>>

\* get_video_info, last branch: the minimal record.
ReturnMinimal(r) ==
    /\ pc[r] = "minimal"
    /\ loop = r
    /\ video_info' = [video_info EXCEPT ![r] = MinimalInfo(video_url[r], video_id[r])]
    /\ provider_calls' = [provider_calls EXCEPT ![r] = Append(@, "minimal record")]
    /\ pc' = [pc EXCEPT ![r] = "get_transcript"]
    /\ UNCHANGED <<installed, video_url, net, loop, video_id, transcript,
                   future, result, context, response>>

\* get_transcript: None without the transcript module, else extract_transcript
\* goes to the executor and the coroutine waits for it.
StartTranscript(r) ==
    /\ pc[r] = "get_transcript"
    /\ loop = r
    /\ IF installed.transcript_api
       THEN /\ pc' = [pc EXCEPT ![r] = "transcript_running"]
            /\ loop' = 0
            /\ UNCHANGED transcript
       ELSE /\ transcript' = [transcript EXCEPT ![r] = None]
            /\ pc' = [pc EXCEPT ![r] = "generate_documentation"]
            /\ UNCHANGED loop
    /\ UNCHANGED <<installed, video_url, net, video_id, video_info,
                   future, provider_calls, result, context, response>>

\* The executor thread runs extract_transcript, for the language "en".
TranscriptWorker(r) ==
    /\ pc[r] = "transcript_running"
    /\ future' = [future EXCEPT ![r] =
           Returns(extract_transcript(net[r].listing, net[r].fetch, "en"))]
    /\ pc' = [pc EXCEPT ![r] = "transcript_finished"]
    /\ UNCHANGED <<installed, video_url, net, loop, video_id, video_info, transcript,
                   provider_calls, result, context, response>>

\* The await of get_transcript resumes.
TranscriptResume(r) ==
    /\ pc[r] = "transcript_finished"
    /\ loop = 0
    /\ loop' = r
    /\ transcript' = [transcript EXCEPT ![r] = future[r].value]
    /\ pc' = [pc EXCEPT ![r] = "generate_documentation"]
    /\ UNCHANGED <<installed, video_url, net, video_id, video_info,
                   future, provider_calls, result, context, response>>

\* process_youtube_video: the document is generated and the pair returned;
\* an exception of generate_documentation leaves the pipeline.
Generate(r) ==
    /\ pc[r] = "generate_documentation"
    /\ loop = r
    /\ LET got == generate_documentation(video_info[r], transcript[r], installed.tiktoken)
       IN  IF got.raised
           THEN /\ result' = [result EXCEPT ![r] = got]
                /\ pc' = [pc EXCEPT ![r] = "except"]
           ELSE /\ result' = [result EXCEPT ![r] =
                       Returns([video_info |-> video_info[r], documentation |-> got.value])]
                /\ pc' = [pc EXCEPT ![r] = "returned"]
    /\ UNCHANGED <<installed, video_url, net, loop, video_id, video_info, transcript,
                   future, provider_calls, context, response>>

\* process_video after the await, with context["result"] = True left out.
HandlerOkWithoutResult(r) ==
    /\ pc[r] = "returned"
    /\ loop = r
    /\ context' = [context EXCEPT ![r] =
           [@ EXCEPT !.video_info = result[r].value.video_info,
                     !.content = result[r].value.documentation]]
    /\ pc' = [pc EXCEPT ![r] = "render"]
    /\ UNCHANGED <<installed, video_url, net, loop, video_id, video_info, transcript,
                   future, provider_calls, result, response>>

\* process_video, after the await: the pair goes into the context.
HandlerOk(r) ==
    /\ pc[r] = "returned"
    /\ loop = r
    /\ context' = [context EXCEPT ![r] =
           [@ EXCEPT !.video_info = result[r].value.video_info,
                     !.content = result[r].value.documentation,
                     !.result = TRUE]]
    /\ pc' = [pc EXCEPT ![r] = "render"]
    /\ UNCHANGED <<installed, video_url, net, loop, video_id, video_info, transcript,
                   future, provider_calls, result, response>>

\* process_video, except branch: the error message goes into the context.
HandlerExcept(r) ==
    /\ pc[r] = "except"
    /\ loop = r
    /\ context' = [context EXCEPT ![r] =
           [@ EXCEPT !.error_message = PyStr(ErrorMessage(result[r].message))]]
    /\ pc' = [pc EXCEPT ![r] = "render"]
    /\ UNCHANGED <<installed, video_url, net, loop, video_id, video_info, transcript,
                   future, provider_calls, result, response>>

\* process_video returns the rendered template.
Respond(r) ==
    /\ pc[r] = "render"
    /\ loop = r
    /\ response' = [response EXCEPT ![r] = context[r]]
    /\ pc' = [pc EXCEPT ![r] = "done"]
    /\ loop' = 0
    /\ UNCHANGED <<installed, video_url, net, video_id, video_info, transcript,
                   future, provider_calls, result, context>>

Next ==
    \E r \in Requests :
        \/ Post(r)
        \/ ExtractId(r)
        \/ TryYtDlp(r)
        \/ YtDlpWorker(r)
        \/ YtDlpResume(r)
        \/ TryPytube(r)
        \/ PytubeWorker(r)
        \/ PytubeResume(r)
        \/ ReturnMinimal(r)
        \/ StartTranscript(r)
        \/ TranscriptWorker(r)
        \/ TranscriptResume(r)
        \/ Generate(r)
        \/ HandlerOk(r)
        \/ HandlerExcept(r)
        \/ Respond(r)

\* ------------------------------------------------------------------- inputs

\* A run of n allowed characters, no two neighbours alike.
RunChars == <<"a", "B", "7", "_", "-">>
Run(n) == [i \in 1..n |-> RunChars[((i - 1) % 5) + 1]]
OtherRun(n) == [i \in 1..n |-> RunChars[((i + 1) % 5) + 1]]

\* URLs of one shape: something before, a host literal, a run of allowed
\* characters of any length up to IdLen + MaxExtra, something after.
OneShapeUrls ==
    { before \o <<lit>> \o Run(n) \o after :
        before \in {<<>>, <<"https://">>, <<"http://", "www.">>, <<"x", " ">>},
        lit \in {"youtube.com/watch?v=", "youtu.be/", "youtube.com/embed/", "vimeo.com/"},
        n \in 0..(IdLen + MaxExtra),
        after \in {<<>>, <<"&", "t", "=", "3", "0">>, <<"?">>} }

\* URLs with two shapes, the first with a short or a whole run.
TwoShapeUrls ==
    { <<first>> \o Run(n) \o <<"&">> \o <<second>> \o OtherRun(IdLen) :
        first \in {"youtube.com/watch?v=", "youtu.be/", "youtube.com/embed/"},
        second \in {"youtube.com/watch?v=", "youtu.be/", "youtube.com/embed/"},
        n \in {3, IdLen} }

Urls == OneShapeUrls \cup TwoShapeUrls

WatchUrl == <<"https://", "www.", "youtube.com/watch?v=">> \o Run(IdLen) \o <<"&", "t", "=", "3", "0">>

\* What ydl.extract_info may hold under the six keys read.
InfoDicts ==
    [title : {Missing, None, PyStr(<<"T">>)},
     description : {Missing, None, PyStr(<<>>), PyStr(<<"D">>)},
     duration : {Missing, None, PyInt(0), PyInt(59), PyInt(3661)},
     view_count : {Missing, None, PyInt(0), PyInt(1000), PyInt(1234567)},
     uploader : {Missing, None, PyStr(<<"C", "h">>)},
     upload_date : {Missing, None, PyStr(<<"2", "0", "2", "0", "0", "1", "0", "5">>)}]

TestInfo ==
    [title |-> PyStr(<<"T">>), description |-> PyStr(<<"D">>), duration |-> PyInt(125),
     view_count |-> PyInt(1000), uploader |-> PyStr(<<"C", "h">>), upload_date |-> None]

\* The YouTube objects of pytube.
PyDate(y, m, d) == [t |-> "date", n |-> (y * 100 + m) * 100 + d, s |-> <<>>]

YouTubeObjects ==
    [title : {PyStr(<<"T">>)},
     description : {None, PyStr(<<>>), PyStr(<<"D">>)},
     length : {PyInt(0), PyInt(125)},
     views : {PyInt(0), PyInt(1000)},
     author : {PyStr(<<"u", "n", "k", "n", "o", "w", "n">>), PyStr(<<"C", "h">>)},
     publish_date : {None, PyDate(2020, 1, 5)},
     video_id : {PyStr(Run(IdLen))}]

ProviderError == <<"Video", "unavailable">>

\* Transcript catalogs: the tracks differ in language or in origin.
Tracks == [language_code : {"en", "de"}, is_generated : BOOLEAN]

Catalogs ==
    { c \in UNION {[1..n -> Tracks] : n \in 0..MaxCatalog} :
        \A i, j \in 1..Len(c) : i # j => c[i] # c[j] }

Listings == {Raises(<<"Subtitles", "are", "disabled">>)} \cup {Returns(c) : c \in Catalogs}

QuietNet ==
    [yt_dlp |-> Raises(ProviderError), pytube |-> Raises(ProviderError),
     listing |-> Returns(<<>>), fetch |-> "text"]

NoneInstalled == [yt_dlp |-> FALSE, pytube |-> FALSE, transcript_api |-> FALSE, tiktoken |-> FALSE]

\* The runs checked: one input varies at a time over its whole set, the
\* others over a few values.
UrlRuns ==
    [installed : {NoneInstalled}, video_url : Urls, net : {QuietNet}]

InfoRuns ==
    [installed : [yt_dlp : {TRUE}, pytube : {FALSE}, transcript_api : {FALSE}, tiktoken : BOOLEAN],
     video_url : {WatchUrl},
     net : [yt_dlp : {Returns(i) : i \in InfoDicts}, pytube : {Raises(ProviderError)},
            listing : {Returns(<<>>)}, fetch : {"text"}]]

FallbackRuns ==
    [installed : [yt_dlp : BOOLEAN, pytube : BOOLEAN, transcript_api : {FALSE}, tiktoken : {FALSE}],
     video_url : {WatchUrl, <<"youtu.be/">> \o OtherRun(IdLen)},
     net : [yt_dlp : {Raises(ProviderError), Returns(TestInfo)},
            pytube : {Raises(ProviderError)} \cup {Returns(y) : y \in YouTubeObjects},
            listing : {Returns(<<>>)}, fetch : {"text"}]]

TranscriptRuns ==
    [installed : [yt_dlp : {TRUE}, pytube : {TRUE}, transcript_api : BOOLEAN, tiktoken : BOOLEAN],
     video_url : {WatchUrl},
     net : [yt_dlp : {Returns(TestInfo), Returns([TestInfo EXCEPT !.duration = None])},
            pytube : {Raises(ProviderError)},
            listing : Listings, fetch : {"raises", "empty", "text"}]]

Runs == UrlRuns \cup InfoRuns \cup FallbackRuns \cup TranscriptRuns

\* ----------------------------------------------------------- specifications

\* Before any request: nothing computed yet.
Fresh ==
    /\ loop = 0
    /\ video_id = [r \in Requests |-> None]
    /\ video_info = [r \in Requests |-> None]
    /\ transcript = [r \in Requests |-> None]
    /\ future = [r \in Requests |-> Returns(None)]
    /\ provider_calls = [r \in Requests |-> <<>>]
    /\ result = [r \in Requests |-> Returns(None)]
    /\ context = [r \in Requests |-> None]
    /\ response = [r \in Requests |-> None]

\* One request, over all the runs.
Init ==
    /\ \E run \in Runs :
        /\ installed = run.installed
        /\ video_url = [r \in Requests |-> run.video_url]
        /\ net = [r \in Requests |-> run.net]
    /\ pc = [r \in Requests |-> IF r = 1 THEN "idle" ELSE "off"]
    /\ Fresh

Spec == Init /\ [][Next]_vars

\* Several requests at once, all modules there but the tokenizer.
ConcurrentInputs ==
    { [video_url |-> WatchUrl,
       net |-> [QuietNet EXCEPT !.yt_dlp = Returns(TestInfo),
                                !.listing = Returns(<<[language_code |-> "en", is_generated |-> FALSE]>>)]],
      [video_url |-> WatchUrl,
       net |-> [QuietNet EXCEPT !.pytube = Returns(CHOOSE y \in YouTubeObjects : y.description = None)]],
      [video_url |-> WatchUrl, net |-> QuietNet],
      [video_url |-> <<"https://", "vimeo.com/">> \o Run(IdLen), net |-> QuietNet] }

InitConcurrent ==
    /\ installed = [yt_dlp |-> TRUE, pytube |-> TRUE, transcript_api |-> TRUE, tiktoken |-> FALSE]
    /\ \E input \in [Requests -> ConcurrentInputs] :
        /\ video_url = [r \in Requests |-> input[r].video_url]
        /\ net = [r \in Requests |-> input[r].net]
    /\ pc = [r \in Requests |-> "idle"]
    /\ Fresh

SpecConcurrent == InitConcurrent /\ [][Next]_vars

\* The except branch of the handler alone, over the messages an exception
\* may carry.
Words == {"Not", "not", "available", "Transcript", "transcript", "Video", "x"}

Messages == UNION {[1..n -> Words] : n \in 0..MaxWords}

InitClassify ==
    /\ installed = NoneInstalled
    /\ video_url = [r \in Requests |-> WatchUrl]
    /\ net = [r \in Requests |-> QuietNet]
    /\ pc = [r \in Requests |-> IF r = 1 THEN "except" ELSE "off"]
    /\ loop = 1
    /\ video_id = [r \in Requests |-> None]
    /\ video_info = [r \in Requests |-> None]
    /\ transcript = [r \in Requests |-> None]
    /\ future = [r \in Requests |-> Returns(None)]
    /\ provider_calls = [r \in Requests |-> <<>>]
    /\ \E m \in Messages :
        result = [r \in Requests |-> IF r = 1 THEN Raises(m) ELSE Returns(None)]
    /\ context = [r \in Requests |-> IF r = 1 THEN InitialContext(WatchUrl) ELSE None]
    /\ response = [r \in Requests |-> None]

NextClassify == \E r \in Requests : HandlerExcept(r) \/ Respond(r)

SpecClassify == InitClassify /\ [][NextClassify]_vars

\* ------------------------------------------------------------------- claims

\* The pipeline of request r has passed extract_video_id.
Extracted(r) == pc[r] \notin {"off", "idle", "extract_video_id"}

\* get_video_info of request r has returned.
InfoKnown(r) == video_info[r] # None

\* get_transcript of request r has returned.
TranscriptKnown(r) ==
    /\ InfoKnown(r)
    /\ pc[r] \in {"generate_documentation", "returned", "except", "render", "done"}

\* process_youtube_video of request r has returned its pair.
Returned(r) == pc[r] \in {"returned", "render", "done"} /\ ~result[r].raised

\* C1: for every URL of a recognized shape and every outcome of the
\* providers, process_youtube_video returns its pair: once the identifier is
\* extracted, no exception leaves the pipeline.
C1_OnlyInvalidUrlRaises ==
    \A r \in Requests : (Extracted(r) /\ video_id[r] # None) => ~result[r].raised

\* C2: the record get_video_info returns has title, description, duration
\* and channel defined on every path, never None.
C2_FieldsDefined ==
    \A r \in Requests :
        InfoKnown(r) =>
            /\ video_info[r].title.t = "str"
            /\ video_info[r].description.t = "str"
            /\ video_info[r].duration.t = "int"
            /\ video_info[r].channel.t = "str"

\* C3: yt-dlp is called first; pytube only after yt-dlp was missing or
\* raised; the minimal record (title "Video {id}", duration 0, no view count,
\* no upload date, url and id of the inputs) only after both were missing or
\* raised; and nothing is called after a provider returned a record.
C3_ProviderOrder ==
    \A r \in Requests :
        LET e == provider_calls[r]
            Before(i) == {e[j] : j \in 1..(i - 1)}
        IN  \A i \in 1..Len(e) :
              /\ e[i] = "call yt_dlp" => i = 1
              /\ e[i] = "call pytube" =>
                    \/ i = 1 /\ ~installed.yt_dlp
                    \/ i > 1 /\ e[i - 1] = "yt_dlp raised"
              /\ e[i] = "minimal record" =>
                    /\ ~installed.yt_dlp \/ "yt_dlp raised" \in Before(i)
                    /\ ~installed.pytube \/ "pytube raised" \in Before(i)
                    /\ Before(i) \cap {"yt_dlp returned", "pytube returned"} = {}
                    /\ i = Len(e)
                    /\ video_info[r].title = PyStr(<<"Video ">> \o video_id[r].s)
                    /\ video_info[r].duration = PyInt(0)
                    /\ video_info[r].view_count = None
                    /\ video_info[r].upload_date = None
                    /\ video_info[r].url = PyStr(video_url[r])
                    /\ video_info[r].video_id = video_id[r]
              /\ e[i] \in {"yt_dlp returned", "pytube returned"} => i = Len(e)

\* Both providers were called and raised, and the minimal record followed.
C3_Witness ==
    provider_calls[1] = <<"call yt_dlp", "yt_dlp raised", "call pytube", "pytube raised", "minimal record">>

\* The track the tiered policy names in a catalog that is not empty.
PolicyTrack(catalog, language) ==
    LET tracks == {catalog[i] : i \in 1..Len(catalog)}
        manual == {t \in tracks : ~t.is_generated /\ t.language_code = language}
        generated == {t \in tracks : t.is_generated /\ t.language_code = language}
    IN  IF manual # {} THEN CHOOSE t \in manual : TRUE
        ELSE IF generated # {} THEN CHOOSE t \in generated : TRUE
        ELSE catalog[1]

\* C4: get_transcript returns None when the catalog is empty or listing or
\* fetching raises, and otherwise the formatted text of the track the tiered
\* policy names: manual in "en", else generated in "en", else the first.
C4_TieredSelection ==
    \A r \in Requests :
        (TranscriptKnown(r) /\ installed.transcript_api) =>
            IF net[r].listing.raised \/ net[r].listing.value = <<>> \/ net[r].fetch = "raises"
            THEN transcript[r] = None
            ELSE transcript[r] =
                   PyStr(IF net[r].fetch = "empty" THEN <<>>
                         ELSE FormattedText(PolicyTrack(net[r].listing.value, "en")))

\* The generated "en" track comes first in the catalog and the manual one is taken.
C4_Witness ==
    /\ TranscriptKnown(1)
    /\ installed.transcript_api
    /\ ~net[1].listing.raised
    /\ Len(net[1].listing.value) = 2
    /\ net[1].listing.value[1] = [language_code |-> "en", is_generated |-> TRUE]
    /\ transcript[1] = PyStr(<<"en", "manual">>)

\* A recognized literal at position k of url followed by exactly 11 allowed
\* characters: the run ends there.
ExactIdAt(url, k) ==
    /\ \E p \in 1..Len(youtube_patterns) : url[k] = youtube_patterns[p]
    /\ k + IdLen <= Len(url)
    /\ \A d \in 1..IdLen : url[k + d] \in IdChars
    /\ k + IdLen = Len(url) \/ url[k + IdLen + 1] \notin IdChars

\* C5: extract_video_id returns an identifier if and only if the input holds
\* a recognized shape followed by an ID of exactly 11 allowed characters, and
\* then returns that ID; a run shorter or longer than 11 fails.
C5_ExactlyElevenOrFail ==
    \A r \in Requests :
        Extracted(r) =>
            /\ video_id[r] # None <=> \E k \in 1..Len(video_url[r]) : ExactIdAt(video_url[r], k)
            /\ video_id[r] # None =>
                 \E k \in 1..Len(video_url[r]) :
                     /\ ExactIdAt(video_url[r], k)
                     /\ video_id[r] = PyStr(SubSeq(video_url[r], k + 1, k + IdLen))

\* The handler of request r has answered an exception of the pipeline.
AnsweredError(r) == response[r] # None /\ result[r].raised

C7_AllOrNothing ==
    \A r \in Requests :
        response[r] # None =>
            \/ /\ response[r].result
               /\ response[r].content # None
               /\ response[r].video_info # None
               /\ response[r].error_message = None
            \/ /\ ~response[r].result
               /\ response[r].error_message.t = "str"
               /\ response[r].error_message.s # <<>>
               /\ response[r].content = None
               /\ response[r].video_info = None

\* A request failed after its metadata was fetched, and was answered.
C7_Witness ==
    /\ response[1] # None
    /\ ~response[1].result
    /\ InfoKnown(1)

\* The Views part as the claim has it: the number whenever there is one.
ClaimedViewsPart(view_count) ==
    IF view_count # None
    THEN <<"**Views:** ">> \o CommaGroup(view_count.n) \o <<"\n\n">>
    ELSE <<"**Views:** ", "Unknown", "\n\n">>

\* The document up to the closing separator as the claim has it.
ClaimedContent(info, text) ==
       <<"# YouTube Video Documentation", "\n\n">>
    \o <<"**Title:** ">> \o Render(info.title) \o <<"\n\n">>
    \o <<"**URL:** ">> \o Render(info.url) \o <<"\n\n">>
    \o <<"**Duration:** ">> \o format_duration(info.duration).value \o <<"\n\n">>
    \o ClaimedViewsPart(info.view_count)
    \o <<"**Channel:** ">> \o Render(info.channel) \o <<"\n\n">>
    \o (IF info.upload_date # None
        THEN <<"**Upload Date:** ">> \o Render(info.upload_date) \o <<"\n\n">>
        ELSE <<>>)
    \o <<"---", "\n\n">>
    \o (IF info.description.t = "str" /\ info.description.s # <<>>
        THEN <<"## Description", "\n\n">> \o info.description.s \o <<"\n\n">>
        ELSE <<>>)
    \o (IF text # None
        THEN <<"## Transcript", "\n\n">> \o text.s \o <<"\n\n">>
        ELSE <<"## Transcript", "\n\n", "*Transcript not available for this video.*", "\n\n">>)

\* The document of request r, and the place of its Estimated Tokens label.
Document(r) == result[r].value.documentation.s
TokensLabel(r) == CHOOSE i \in 1..Len(Document(r)) : Document(r)[i] = "**Estimated Tokens:** "

\* C8: the document has the sections in the fixed order, each optional part
\* exactly under its condition; the Views line shows the number whenever a
\* view count is present.
C8_SectionsAsClaimed ==
    \A r \in Requests :
        Returned(r) =>
            SubSeq(Document(r), 1, TokensLabel(r) - 3) = ClaimedContent(video_info[r], transcript[r])

\* C9: a request whose provider call is in flight does not hold the event
\* loop: the loop is free for, or busy with, another request.
C9_LoopNotHeld == \A r \in Requests : InFlight(r) => loop # r

\* The loop runs a step of request 2 while the provider call of request 1 is
\* in flight.
C9_Witness == InFlight(1) /\ loop = 2

\* int() of a number written with commas.
RECURSIVE ParseCommaInt(_)
ParseCommaInt(text) ==
    IF text = <<>> THEN 0
    ELSE LET last == text[Len(text)]
             front == SubSeq(text, 1, Len(text) - 1)
         IN  IF last = "," THEN ParseCommaInt(front)
             ELSE 10 * ParseCommaInt(front) + (CHOOSE d \in 0..9 : DigitChars[d + 1] = last)

\* The number on the Estimated Tokens line of the document of request r.
TokensShown(r) ==
    ParseCommaInt(SubSeq(Document(r), TokensLabel(r) + 1, Len(Document(r)) - 1))

\* C10 as stated: without the tokenizer the number is floor(chars / 4) of
\* everything above the Estimated Tokens line.
C10_CountsAllAbove ==
    \A r \in Requests :
        (Returned(r) /\ ~installed.tiktoken) =>
            TokensShown(r) = CharCount(SubSeq(Document(r), 1, TokensLabel(r) - 1)) \div 4

\* C10 amended: the number is taken over the text above the closing
\* separator, which is not counted: floor(chars / 4) of it without the
\* tokenizer, the tokenizer's count of it otherwise.
C10_CountsAboveSeparator ==
    \A r \in Requests :
        Returned(r) =>
            LET above == SubSeq(Document(r), 1, TokensLabel(r) - 3)
            IN  /\ SubSeq(Document(r), TokensLabel(r) - 2, TokensLabel(r) - 1) = <<"---", "\n\n">>
                /\ Document(r)[Len(Document(r))] = "\n"
                /\ TokensShown(r) = IF installed.tiktoken THEN EncodeLen(above)
                                    ELSE CharCount(above) \div 4

\* A document whose number differs from the count that takes in the separator.
C10_Witness ==
    /\ Returned(1)
    /\ ~installed.tiktoken
    /\ TokensShown(1) = CharCount(SubSeq(Document(1), 1, TokensLabel(1) - 3)) \div 4
    /\ TokensShown(1) # CharCount(SubSeq(Document(1), 1, TokensLabel(1) - 1)) \div 4

====
